---------------------------- MODULE Spec2Model ----------------------------
(***************************************************************************)
(* A model of the dental clinic application (dental/models.py,             *)
(* dental/views.py, dental/admin.py, dental/forms.py).                     *)
(*                                                                         *)
(* Strings are sequences of one-character strings, so that slicing,        *)
(* prefix tests, ordering, parsing and formatting are computed as the code *)
(* computes them.                                                          *)
(*                                                                         *)
(* The module holds several specifications over the same variables:        *)
(*   SpecIds    identifier generation: stepwise concurrent creations,      *)
(*              deletion, edit, admin actions                              *)
(*   SpecGen    identifier generation as a function of the stored rows     *)
(*   SpecIdsSeq SpecIds with a single writer                               *)
(*   SpecChart  the dental chart: patient_detail and tooth_update          *)
(*   SpecExam   periodontal exams: creation from POST data, and reading    *)
(*   SpecCompare  several exams of several patients and dates, and reading *)
(*   SpecChartConc  patient_detail requests served concurrently, one       *)
(*              database statement at a time                               *)
(*   SpecChartAdmin  the dental chart with tooth rows deleted in the admin *)
(*   SpecCascade  exams created, exams and users deleted in the admin      *)
(*   SpecToothConc  tooth_update requests served concurrently: the read of *)
(*              the tooth and its save as separate steps                   *)
(***************************************************************************)
EXTENDS Integers, Sequences, FiniteSets, TLC

VARIABLES
    year,           \* timezone.now().year
    patients,       \* Patient table: pk -> [patient_id, is_active, notes]
    invoices,       \* Invoice table: pk -> [invoice_number]
    nextPatientPk,  \* next auto-increment primary key of Patient
    nextInvoicePk,  \* next auto-increment primary key of Invoice
    procs,          \* in-flight save() calls: proc -> [pc, kind, id, result]
    issued,         \* history: identifiers computed by save(), in order
    assigned,       \* history: [kind, pk, id] of every row inserted, in order
    lastGen,        \* history: the last sequential creation, or NoGen
    teeth,          \* Tooth table: pk -> [patient, tooth_number, status, notes]
    nextToothPk,    \* next auto-increment primary key of Tooth
    viewed,         \* history: patients whose chart page has been served
    resp,           \* history: the last chart request and its response
    detail,         \* in-flight patient_detail requests: proc -> [pc, patient, i, code]
    updating,       \* in-flight tooth_update requests: proc -> [pc, tooth_id, body,
                    \*   tooth, code]
    exams,          \* PeriodontalExam table: pk -> [patient, exam_date, dentist]
    nextExamPk,     \* next auto-increment primary key of PeriodontalExam
    measurements,   \* ToothMeasurement table: pk -> [exam, tooth_number, surface,
                    \*   position, pocket_depth, bleeding, calculus]
    nextMeasurementPk, \* next auto-increment primary key of ToothMeasurement
    posted,         \* history: exam pk -> the POST data that created it
    examResp,       \* history: the last exam request and its response
    users           \* User table: the keys stored

idVars == <<year, patients, invoices, nextPatientPk, nextInvoicePk, procs,
            issued, assigned, lastGen>>

chartVars == <<teeth, nextToothPk, viewed, resp, detail, updating>>

examVars == <<exams, nextExamPk, measurements, nextMeasurementPk, posted, examResp,
             users>>

vars == <<idVars, chartVars, examVars>>

---------------------------------------------------------------------------
(* Bounds of the model *)

FirstYear == 2024
LastYear == 2025
NumProcs == 2
MaxIssued == 3
MaxGen == 2
MaxExams == 1
MaxCompared == 4
MaxCharts == 2
MaxCascade == 2
NumStatusInputs == 2

---------------------------------------------------------------------------
(* Character strings *)

EmptyStr == <<>>

Digits == <<"0", "1", "2", "3", "4", "5", "6", "7", "8", "9">>

IsDigit(c) == \E d \in 0..9 : Digits[d + 1] = c

DigitVal(c) == CHOOSE d \in 0..9 : Digits[d + 1] = c

\* Code point order of the characters the model uses.
CharRank(c) ==
    CASE c = " " -> 32
      [] c = "+" -> 43
      [] c = "-" -> 45
      [] c = "." -> 46
      [] IsDigit(c) -> 48 + DigitVal(c)
      [] c = "I" -> 73
      [] c = "N" -> 78
      [] c = "P" -> 80
      [] c = "V" -> 86
      [] OTHER -> 97

RECURSIVE StrLess(_, _)
\* a < b in string order
StrLess(a, b) ==
    IF b = <<>> THEN FALSE
    ELSE IF a = <<>> THEN TRUE
    ELSE IF Head(a) = Head(b) THEN StrLess(Tail(a), Tail(b))
    ELSE CharRank(Head(a)) < CharRank(Head(b))

\* s.startswith(prefix)
StartsWith(s, prefix) ==
    /\ Len(s) >= Len(prefix)
    /\ SubSeq(s, 1, Len(prefix)) = prefix

\* s[-4:]
Last4(s) == IF Len(s) <= 4 THEN s ELSE SubSeq(s, Len(s) - 3, Len(s))

RECURSIVE DigitsToInt(_)
\* int(s) of a string of decimal digits
DigitsToInt(s) ==
    IF s = <<>> THEN 0
    ELSE DigitsToInt(SubSeq(s, 1, Len(s) - 1)) * 10 + DigitVal(s[Len(s)])

RECURSIVE IntToStr(_)
\* str(n), n >= 0
IntToStr(n) ==
    IF n < 10 THEN <<Digits[n + 1]>>
    ELSE IntToStr(n \div 10) \o <<Digits[(n % 10) + 1]>>

\* f'{n:04d}', n >= 0: at least 4 digits, zero padded
Format04d(n) ==
    LET s == IntToStr(n)
    IN  IF Len(s) >= 4 THEN s
        ELSE [i \in 1..(4 - Len(s)) |-> "0"] \o s

---------------------------------------------------------------------------
(* Sequential identifiers: Patient.save, Invoice.save *)

PatientKind == <<"P">>
InvoiceKind == <<"I", "N", "V">>

\* The generator shared by both models, with .first() for .last().
NextIdentifierFirst(kind, ids, yr) ==
    LET prefix == kind \o IntToStr(yr)
        matching == {i \in ids : StartsWith(i, prefix)}
    IN  IF matching = {} THEN prefix \o Format04d(1)
        ELSE LET first == CHOOSE m \in matching :
                              \A o \in matching : o = m \/ StrLess(m, o)
             IN  prefix \o Format04d(DigitsToInt(Last4(first)) + 1)

\* filter(<field>__startswith=f'<kind>{year}').order_by(<field>).last(),
\* int(last[-4:]) + 1 or 1, f'<kind>{year}{new_number:04d}'
NextIdentifier(kind, ids, yr) ==
    LET prefix == kind \o IntToStr(yr)
        matching == {i \in ids : StartsWith(i, prefix)}
    IN  IF matching = {} THEN prefix \o Format04d(1)
        ELSE LET last == CHOOSE m \in matching :
                             \A o \in matching : o = m \/ StrLess(o, m)
                 last_number == DigitsToInt(Last4(last))
                 new_number == last_number + 1
             IN  prefix \o Format04d(new_number)

PatientIds == {patients[pk].patient_id : pk \in DOMAIN patients}
InvoiceNumbers == {invoices[pk].invoice_number : pk \in DOMAIN invoices}

\* Patient.save that regenerates the identifier on every save.
PatientSaveIdAlways(self_id, ids, yr) == NextIdentifier(PatientKind, ids, yr)

\* Patient.save: the patient_id the instance holds when super().save() runs
PatientSaveId(self_id, ids, yr) ==
    IF self_id = EmptyStr THEN NextIdentifier(PatientKind, ids, yr)
    ELSE self_id

\* Invoice.save: the invoice_number the instance holds when super().save() runs
InvoiceSaveNumber(self_number, ids, yr) ==
    IF self_number = EmptyStr THEN NextIdentifier(InvoiceKind, ids, yr)
    ELSE self_number

ModelKinds == {"Patient", "Invoice"}

Idle == [pc |-> "idle", kind |-> "Patient", id |-> EmptyStr, result |-> "none"]

NoGen == [kind |-> "none", year |-> 0, before |-> {}, id |-> EmptyStr,
          result |-> "none", n |-> 0]

Procs == 1..NumProcs

FormNotes == {EmptyStr, <<"a">>}

\* save() of a new instance, first half: the SELECT of the highest identifier
\* and the assignment to self.patient_id / self.invoice_number
SaveCompute(p, k) ==
    /\ procs[p].pc = "idle"
    /\ Len(issued) < MaxIssued
    /\ LET id == IF k = "Patient"
                 THEN PatientSaveId(EmptyStr, PatientIds, year)
                 ELSE InvoiceSaveNumber(EmptyStr, InvoiceNumbers, year)
       IN  /\ procs' = [procs EXCEPT ![p] =
                           [pc |-> "insert", kind |-> k, id |-> id, result |-> "none"]]
           /\ issued' = Append(issued, [kind |-> k, year |-> year, id |-> id])
    /\ UNCHANGED <<year, patients, invoices, nextPatientPk, nextInvoicePk,
                   assigned, lastGen>>
    /\ UNCHANGED <<chartVars, examVars>>

\* save() of a new instance, second half: super().save(), the INSERT under
\* the unique=True constraint of the identifier column
SaveInsert(p) ==
    /\ procs[p].pc = "insert"
    /\ LET k == procs[p].kind
           id == procs[p].id
           taken == IF k = "Patient" THEN id \in PatientIds ELSE id \in InvoiceNumbers
       IN  IF taken
           THEN /\ procs' = [procs EXCEPT ![p] =
                                [pc |-> "idle", kind |-> k, id |-> id,
                                 result |-> "IntegrityError"]]
                /\ UNCHANGED <<patients, invoices, nextPatientPk, nextInvoicePk, assigned>>
           ELSE /\ procs' = [procs EXCEPT ![p] =
                                [pc |-> "idle", kind |-> k, id |-> id,
                                 result |-> "created"]]
                /\ IF k = "Patient"
                   THEN /\ patients' = patients @@ (nextPatientPk :>
                               [patient_id |-> id, is_active |-> TRUE, notes |-> EmptyStr])
                        /\ nextPatientPk' = nextPatientPk + 1
                        /\ assigned' = Append(assigned,
                               [kind |-> k, pk |-> nextPatientPk, id |-> id])
                        /\ UNCHANGED <<invoices, nextInvoicePk>>
                   ELSE /\ invoices' = invoices @@ (nextInvoicePk :>
                               [invoice_number |-> id])
                        /\ nextInvoicePk' = nextInvoicePk + 1
                        /\ assigned' = Append(assigned,
                               [kind |-> k, pk |-> nextInvoicePk, id |-> id])
                        /\ UNCHANGED <<patients, nextPatientPk>>
    /\ UNCHANGED <<year, issued, lastGen>>
    /\ UNCHANGED <<chartVars, examVars>>

\* patient_edit: PatientForm(instance=patient).save() -> Patient.save() of a
\* persisted instance; the form has no patient_id field
PatientEdit(pk, notes) ==
    /\ pk \in DOMAIN patients
    /\ patients' = [patients EXCEPT ![pk] =
           [patient_id |-> PatientSaveId(@.patient_id, PatientIds, year),
            is_active |-> @.is_active,
            notes |-> notes]]
    /\ UNCHANGED <<year, invoices, nextPatientPk, nextInvoicePk, procs, issued,
                   assigned, lastGen>>
    /\ UNCHANGED <<chartVars, examVars>>

\* PatientAdmin.activate_patients / deactivate_patients: queryset.update(is_active=b)
AdminSetActive(queryset, b) ==
    /\ queryset # {}
    /\ queryset \subseteq DOMAIN patients
    /\ patients' = [pk \in DOMAIN patients |->
           IF pk \in queryset
           THEN [patients[pk] EXCEPT !.is_active = b]
           ELSE patients[pk]]
    /\ UNCHANGED <<year, invoices, nextPatientPk, nextInvoicePk, procs, issued,
                   assigned, lastGen>>
    /\ UNCHANGED <<chartVars, examVars>>

\* PatientAdmin: the admin site's delete view / delete_selected action
AdminDeletePatient(pk) ==
    /\ pk \in DOMAIN patients
    /\ patients' = [q \in DOMAIN patients \ {pk} |-> patients[q]]
    \* Tooth.patient is on_delete=CASCADE
    /\ teeth' = [t \in {u \in DOMAIN teeth : teeth[u].patient # pk} |-> teeth[t]]
    /\ UNCHANGED <<year, invoices, nextPatientPk, nextInvoicePk, procs, issued,
                   assigned, lastGen>>
    \* PeriodontalExam.patient and ToothMeasurement.exam are on_delete=CASCADE
    /\ exams' = [x \in {y \in DOMAIN exams : exams[y].patient # pk} |-> exams[x]]
    /\ measurements' = [m \in {n \in DOMAIN measurements :
                                    exams[measurements[n].exam].patient # pk} |->
                            measurements[m]]
    /\ UNCHANGED <<nextToothPk, viewed, resp, detail, updating>>
    /\ UNCHANGED <<nextExamPk, nextMeasurementPk, posted, examResp, users>>

\* timezone.now().year moves on
NewYear ==
    /\ year < LastYear
    /\ year' = year + 1
    /\ UNCHANGED <<patients, invoices, nextPatientPk, nextInvoicePk, procs, issued,
                   assigned, lastGen>>
    /\ UNCHANGED <<chartVars, examVars>>

EmptyTable == [pk \in {} |-> 0]

NoResp == [op |-> "none"]

\* request.user of the clinic's requests, and the administrator's account
Users == {"user", "admin"}

\* No patient_detail request in flight.
NoDetail == [pc |-> "idle", patient |-> 0, i |-> 0, code |-> 0, error |-> ""]

\* No tooth_update request in flight.
NoUpdate == [pc |-> "idle"]

\* No exam stored, no exam request served yet.
ExamsEmpty ==
    /\ exams = EmptyTable
    /\ nextExamPk = 1
    /\ measurements = EmptyTable
    /\ nextMeasurementPk = 1
    /\ posted = EmptyTable
    /\ examResp = NoResp
    /\ users = Users

\* No tooth stored, no chart request served yet.
ChartEmpty ==
    /\ teeth = EmptyTable
    /\ nextToothPk = 1
    /\ viewed = {}
    /\ resp = NoResp
    /\ detail = [q \in Procs |-> NoDetail]
    /\ updating = [q \in Procs |-> NoUpdate]

InitIds ==
    /\ year = FirstYear
    /\ patients = EmptyTable
    /\ invoices = EmptyTable
    /\ nextPatientPk = 1
    /\ nextInvoicePk = 1
    /\ procs = [p \in Procs |-> Idle]
    /\ issued = <<>>
    /\ assigned = <<>>
    /\ lastGen = NoGen
    /\ ChartEmpty
    /\ ExamsEmpty

NextIds ==
    \/ \E p \in Procs, k \in ModelKinds : SaveCompute(p, k)
    \/ \E p \in Procs : SaveInsert(p)
    \/ \E pk \in DOMAIN patients, n \in FormNotes : PatientEdit(pk, n)
    \/ \E q \in SUBSET (DOMAIN patients), b \in BOOLEAN : AdminSetActive(q, b)
    \/ \E pk \in DOMAIN patients : AdminDeletePatient(pk)

SpecIds == InitIds /\ [][NextIds]_vars

\* One writer: every save() runs to its end before the next request starts.
NextIdsSeq ==
    \/ \E k \in ModelKinds : SaveCompute(1, k)
    \/ SaveInsert(1)
    \/ \E pk \in DOMAIN patients, n \in FormNotes : PatientEdit(pk, n)
    \/ \E q \in SUBSET (DOMAIN patients), b \in BOOLEAN : AdminSetActive(q, b)
    \/ \E pk \in DOMAIN patients : AdminDeletePatient(pk)

SpecIdsSeq == InitIds /\ [][NextIdsSeq]_vars

---------------------------------------------------------------------------
(* SpecGen: the generator over stored identifiers of several years *)

\* Counters of the identifiers stored before the first creation.
SeedCounters == {1, 9, 99, 9998, 9999}

SeedPairs == (FirstYear..LastYear) \X SeedCounters

SeedKey(pr) == pr[1] * 100000 + pr[2]

\* The identifier Patient.save / Invoice.save gave the n-th entity of year yr.
SeedId(kind, pr) == kind \o IntToStr(pr[1]) \o Format04d(pr[2])

\* The pair that holds the pk-th primary key: rows were inserted in identifier order.
SeedAt(S, pk) == CHOOSE x \in S : Cardinality({y \in S : SeedKey(y) <= SeedKey(x)}) = pk

KindPrefix(k) == IF k = "Patient" THEN PatientKind ELSE InvoiceKind

\* One writer's whole save() of a new instance: SELECT, assignment, INSERT.
Create(k) ==
    /\ lastGen.n < MaxGen
    /\ LET before == IF k = "Patient" THEN PatientIds ELSE InvoiceNumbers
           id == IF k = "Patient"
                 THEN PatientSaveId(EmptyStr, PatientIds, year)
                 ELSE InvoiceSaveNumber(EmptyStr, InvoiceNumbers, year)
           n == lastGen.n + 1
       IN  IF id \in before
           THEN /\ lastGen' = [kind |-> k, year |-> year, before |-> before,
                               id |-> id, result |-> "IntegrityError", n |-> n]
                /\ UNCHANGED <<patients, invoices, nextPatientPk, nextInvoicePk>>
           ELSE /\ lastGen' = [kind |-> k, year |-> year, before |-> before,
                               id |-> id, result |-> "created", n |-> n]
                /\ IF k = "Patient"
                   THEN /\ patients' = patients @@ (nextPatientPk :>
                               [patient_id |-> id, is_active |-> TRUE, notes |-> EmptyStr])
                        /\ nextPatientPk' = nextPatientPk + 1
                        /\ UNCHANGED <<invoices, nextInvoicePk>>
                   ELSE /\ invoices' = invoices @@ (nextInvoicePk :>
                               [invoice_number |-> id])
                        /\ nextInvoicePk' = nextInvoicePk + 1
                        /\ UNCHANGED <<patients, nextPatientPk>>
    /\ UNCHANGED <<year, procs, issued, assigned>>
    /\ UNCHANGED <<chartVars, examVars>>

InitGen ==
    /\ year \in FirstYear..LastYear
    /\ \E S \in SUBSET SeedPairs :
          /\ patients = [pk \in 1..Cardinality(S) |->
                 [patient_id |-> SeedId(PatientKind, SeedAt(S, pk)),
                  is_active |-> TRUE, notes |-> EmptyStr]]
          /\ invoices = [pk \in 1..Cardinality(S) |->
                 [invoice_number |-> SeedId(InvoiceKind, SeedAt(S, pk))]]
          /\ nextPatientPk = Cardinality(S) + 1
          /\ nextInvoicePk = Cardinality(S) + 1
    /\ procs = [p \in Procs |-> Idle]
    /\ issued = <<>>
    /\ assigned = <<>>
    /\ lastGen = NoGen
    /\ ChartEmpty
    /\ ExamsEmpty

NextGen ==
    \/ Create("Patient")
    \/ Create("Invoice")
    \/ NewYear

SpecGen == InitGen /\ [][NextGen]_vars

---------------------------------------------------------------------------
(* Reading identifiers back, for the statements about them *)

\* The year digits and the counter digits that follow the kind letters.
YearOfId(k, id) == DigitsToInt(SubSeq(id, Len(KindPrefix(k)) + 1, Len(KindPrefix(k)) + 4))
CounterOfId(k, id) == DigitsToInt(SubSeq(id, Len(KindPrefix(k)) + 5, Len(id)))

SetMax(S) == CHOOSE m \in S : \A x \in S : x <= m

\* C4: when every stored counter is in 1..9998, a new entity receives
\* <Kind><year> followed by the 4-digit zero-padded max+1 over the counters
\* stored with that year's prefix, or 0001 when that year has none,
\* whatever identifiers other years hold.
C4_NextIsMaxPlusOne ==
    (/\ lastGen.kind # "none"
     /\ \A id \in lastGen.before : CounterOfId(lastGen.kind, id) \in 1..9998)
    => LET k == lastGen.kind
           prefix == KindPrefix(k) \o IntToStr(lastGen.year)
           same == {CounterOfId(k, id) :
                       id \in {i \in lastGen.before : YearOfId(k, i) = lastGen.year}}
           expected == IF same = {} THEN 1 ELSE SetMax(same) + 1
       IN  /\ lastGen.result = "created"
           /\ StartsWith(lastGen.id, prefix)
           /\ Len(lastGen.id) = Len(prefix) + 4
           /\ \A i \in (Len(prefix) + 1)..Len(lastGen.id) : IsDigit(lastGen.id[i])
           /\ CounterOfId(k, lastGen.id) = expected

\* C4 witness: an invoice numbered 0100 after 0001..0099 of its year, with
\* numbers of another year stored as well.
C4_Witness ==
    /\ lastGen.kind = "Invoice"
    /\ \A id \in lastGen.before : CounterOfId("Invoice", id) \in 1..9998
    /\ \E id \in lastGen.before : YearOfId("Invoice", id) # lastGen.year
    /\ \E id \in lastGen.before :
          YearOfId("Invoice", id) = lastGen.year /\ CounterOfId("Invoice", id) = 99
    /\ lastGen.id = InvoiceKind \o IntToStr(lastGen.year) \o <<"0", "1", "0", "0">>

---------------------------------------------------------------------------
(* Statements about identifier assignment, under SpecIds *)

NoPatientDeleted == Cardinality(DOMAIN patients) = nextPatientPk - 1

\* C1: over any interleaving of creations of one year (no deletion), the
\* identifiers save() issues never repeat and strictly increase in the order
\* they are issued, for patients and for invoices alike, and no two stored
\* patients (invoices) share an identifier.
C1_IssuedStrictlyIncrease ==
    NoPatientDeleted =>
        /\ \A i, j \in 1..Len(issued) :
              (i < j /\ issued[i].kind = issued[j].kind /\ issued[i].year = issued[j].year)
                  => StrLess(issued[i].id, issued[j].id)
        /\ \A p, q \in DOMAIN patients :
              p # q => patients[p].patient_id # patients[q].patient_id
        /\ \A p, q \in DOMAIN invoices :
              p # q => invoices[p].invoice_number # invoices[q].invoice_number

\* C2: over creations and deletions, an identifier once given to a patient is
\* never given to a different, later-created patient.
C2_NeverReassigned ==
    \A i, j \in 1..Len(assigned) :
        (i < j /\ assigned[i].kind = "Patient" /\ assigned[j].kind = "Patient")
            => assigned[i].id # assigned[j].id

\* C3: every stored patient has a patient_id, set by its first save, and no
\* step (edit form save, admin activate/deactivate, any other save) changes
\* the patient_id of a patient that stays stored.
C3_PatientIdImmutable ==
    [][/\ \A pk \in DOMAIN patients' : patients'[pk].patient_id # EmptyStr
       /\ \A pk \in DOMAIN patients :
             pk \in DOMAIN patients'
                 => patients'[pk].patient_id = patients[pk].patient_id]_vars

\* C3 witness: a patient that was edited through the form and deactivated by
\* the admin action, while another patient was created after it, still holds
\* the identifier its insert gave it.
C3_Witness ==
    \E pk \in DOMAIN patients :
        /\ patients[pk].notes = <<"a">>
        /\ ~patients[pk].is_active
        /\ \E q \in DOMAIN patients : q > pk
        /\ \E i \in 1..Len(assigned) :
              /\ assigned[i].kind = "Patient"
              /\ assigned[i].pk = pk
              /\ assigned[i].id = patients[pk].patient_id

---------------------------------------------------------------------------
(* The dental chart: Tooth, patient_detail, tooth_update *)

\* Tooth.TOOTH_STATUS_CHOICES
TOOTH_STATUS_CHOICES ==
    << <<"healthy", "Healthy">>, <<"cavity", "Cavity">>, <<"filled", "Filled">>,
       <<"crown", "Crown">>, <<"root_canal", "Root Canal">>, <<"missing", "Missing">>,
       <<"implant", "Implant">>, <<"bridge", "Bridge">> >>

\* dict(Tooth.TOOTH_STATUS_CHOICES).keys()
valid_statuses == {TOOTH_STATUS_CHOICES[i][1] : i \in 1..Len(TOOTH_STATUS_CHOICES)}

\* list(range(a, b)) and list(range(a, b, -1))
RangeUp(a, b) == [i \in 1..(IF b > a THEN b - a ELSE 0) |-> a + i - 1]
RangeDown(a, b) == [i \in 1..(IF a > b THEN a - b ELSE 0) |-> a - i + 1]

\* The tooth list with range(18, 11, -1) for range(18, 10, -1).
tooth_numbers_short ==
    RangeDown(18, 11) \o RangeUp(21, 29) \o RangeDown(48, 40) \o RangeUp(31, 39)

\* tooth_numbers of patient_detail and of periodontal_exam_create
tooth_numbers ==
    RangeDown(18, 10) \o RangeUp(21, 29) \o RangeDown(48, 40) \o RangeUp(31, 39)

TeethOf(p) == {t \in DOMAIN teeth : teeth[t].patient = p}

\* The patients stored when the chart requests start.
StoredPatients == {1, 2}

\* Patients requests name: the stored ones and one that does not exist.
PatientInputs == StoredPatients \cup {3}

\* patient_detail that creates the teeth a chart lacks, whenever it has
\* fewer than 32.
PatientDetailFill(p) ==
    /\ UNCHANGED <<detail, updating>>
    /\ IF p \notin DOMAIN patients
       THEN /\ resp' = [op |-> "patient_detail", patient |-> p, code |-> 404,
                        before |-> 0, created |-> 0, again |-> FALSE,
                        rows |-> EmptyTable]
            /\ UNCHANGED <<teeth, nextToothPk, viewed>>
       ELSE LET before == Cardinality(TeethOf(p))
                missing == SelectSeq(tooth_numbers,
                               LAMBDA x : \A t \in TeethOf(p) : teeth[t].tooth_number # x)
                n == Len(missing)
                new == [i \in 1..n |->
                           [patient |-> p, tooth_number |-> missing[i],
                            status |-> "healthy", notes |-> EmptyStr]]
            IN  /\ teeth' = [t \in DOMAIN teeth \cup (nextToothPk..(nextToothPk + n - 1)) |->
                                IF t \in DOMAIN teeth THEN teeth[t]
                                ELSE new[t - nextToothPk + 1]]
                /\ nextToothPk' = nextToothPk + n
                /\ viewed' = viewed \cup {p}
                /\ resp' = [op |-> "patient_detail", patient |-> p, code |-> 200,
                            before |-> before,
                            created |-> n,
                            again |-> p \in viewed,
                            rows |-> [t \in TeethOf(p) |-> teeth[t]]]

\* patient_detail: get_object_or_404, then the chart initialization when the
\* patient has no tooth, one Tooth.objects.create per tooth number
PatientDetail(p) ==
    /\ UNCHANGED <<detail, updating>>
    /\ IF p \notin DOMAIN patients
       THEN /\ resp' = [op |-> "patient_detail", patient |-> p, code |-> 404,
                        before |-> 0, created |-> 0, again |-> FALSE,
                        rows |-> EmptyTable]
            /\ UNCHANGED <<teeth, nextToothPk, viewed>>
       ELSE LET before == Cardinality(TeethOf(p))
                n == Len(tooth_numbers)
                create == ~(TeethOf(p) # {})
                new == [i \in 1..n |->
                           [patient |-> p, tooth_number |-> tooth_numbers[i],
                            status |-> "healthy", notes |-> EmptyStr]]
            IN  /\ IF create
                   THEN /\ teeth' = [t \in DOMAIN teeth \cup (nextToothPk..(nextToothPk + n - 1)) |->
                                        IF t \in DOMAIN teeth THEN teeth[t]
                                        ELSE new[t - nextToothPk + 1]]
                        /\ nextToothPk' = nextToothPk + n
                   ELSE UNCHANGED <<teeth, nextToothPk>>
                /\ viewed' = viewed \cup {p}
                /\ resp' = [op |-> "patient_detail", patient |-> p, code |-> 200,
                            before |-> before,
                            created |-> IF create THEN n ELSE 0,
                            again |-> p \in viewed,
                            rows |-> [t \in TeethOf(p) |-> teeth[t]]]

\* JSON values of a request body, tagged with their type.
JStr(v) == [t |-> "str", v |-> v]
JNull == [t |-> "null", v |-> EmptyStr]
JNum == [t |-> "num", v |-> <<"7">>]
JList == [t |-> "list", v |-> EmptyStr]

\* hash(value) succeeds
Hashable(j) == j.t # "list"

\* bool(value)
Truthy(j) ==
    CASE j.t = "str" -> j.v # EmptyStr
      [] j.t = "null" -> FALSE
      [] j.t = "num" -> j.v # <<"0">>
      [] OTHER -> TRUE

\* tooth_update that assigns the notes without the `if notes` test.
ToothUpdateClearNotes(tooth, body) ==
    IF body.kind = "malformed" THEN
        [code |-> 400, error |-> "Invalid JSON data", tooth |-> tooth]
    ELSE IF body.kind # "object" THEN
        [code |-> 500, error |-> "AttributeError", tooth |-> tooth]
    ELSE IF ~Hashable(body.status) THEN
        [code |-> 500, error |-> "TypeError", tooth |-> tooth]
    ELSE IF ~(body.status.t = "str" /\ body.status.v \in valid_statuses) THEN
        [code |-> 400, error |-> "Invalid tooth status", tooth |-> tooth]
    ELSE
        [code |-> 200, error |-> "",
         tooth |-> [tooth EXCEPT !.status = body.status.v,
                                 !.notes = body.notes.v]]

\* tooth_update that appends the notes to the stored ones.
ToothUpdateAppend(tooth, body) ==
    IF body.kind = "malformed" THEN
        [code |-> 400, error |-> "Invalid JSON data", tooth |-> tooth]
    ELSE IF body.kind # "object" THEN
        [code |-> 500, error |-> "AttributeError", tooth |-> tooth]
    ELSE IF ~Hashable(body.status) THEN
        [code |-> 500, error |-> "TypeError", tooth |-> tooth]
    ELSE IF ~(body.status.t = "str" /\ body.status.v \in valid_statuses) THEN
        [code |-> 400, error |-> "Invalid tooth status", tooth |-> tooth]
    ELSE
        [code |-> 200, error |-> "",
         tooth |-> [tooth EXCEPT !.status = body.status.v,
                                 !.notes = IF Truthy(body.notes) THEN @ \o body.notes.v
                                           ELSE @]]

\* tooth_update on a stored tooth: json.loads, data.get('status'),
\* data.get('notes', ''), the status check, the assignments and tooth.save();
\* the response code and the row as stored afterwards
ToothUpdateResult(tooth, body) ==
    IF body.kind = "malformed" THEN
        \* json.JSONDecodeError
        [code |-> 400, error |-> "Invalid JSON data", tooth |-> tooth]
    ELSE IF body.kind # "object" THEN
        \* data.get on a list: AttributeError, except Exception
        [code |-> 500, error |-> "AttributeError", tooth |-> tooth]
    ELSE IF ~Hashable(body.status) THEN
        \* new_status not in valid_statuses: TypeError, except Exception
        [code |-> 500, error |-> "TypeError", tooth |-> tooth]
    ELSE IF ~(body.status.t = "str" /\ body.status.v \in valid_statuses) THEN
        [code |-> 400, error |-> "Invalid tooth status", tooth |-> tooth]
    ELSE
        [code |-> 200, error |-> "",
         tooth |-> [tooth EXCEPT !.status = body.status.v,
                                 !.notes = IF Truthy(body.notes) THEN body.notes.v
                                           ELSE @]]

NoTooth == [patient |-> 0, tooth_number |-> 0, status |-> "", notes |-> EmptyStr]

\* tooth_update: get_object_or_404 inside the try, then the update
ToothUpdate(tooth_id, body) ==
    /\ IF tooth_id \notin DOMAIN teeth
       THEN \* Http404 is caught by except Exception
            /\ resp' = [op |-> "tooth_update", tooth_id |-> tooth_id, body |-> body,
                        code |-> 500, error |-> "Http404",
                        before |-> NoTooth, after |-> NoTooth, repeat |-> FALSE]
            /\ UNCHANGED teeth
       ELSE LET r == ToothUpdateResult(teeth[tooth_id], body)
            IN  /\ teeth' = [teeth EXCEPT ![tooth_id] = r.tooth]
                /\ resp' = [op |-> "tooth_update", tooth_id |-> tooth_id, body |-> body,
                            code |-> r.code, error |-> r.error,
                            before |-> teeth[tooth_id], after |-> r.tooth,
                            repeat |-> /\ resp.op = "tooth_update"
                                       /\ resp.code = 200
                                       /\ resp.tooth_id = tooth_id
                                       /\ resp.body = body]
    /\ UNCHANGED <<nextToothPk, viewed, detail, updating>>

\* Status values of requests: the first NumStatusInputs canonical ones, a
\* wrongly cased one, null or missing, a number, a list.
StatusInputs ==
    {JStr(TOOTH_STATUS_CHOICES[i][1]) : i \in 1..NumStatusInputs}
        \cup {JStr("Cavity"), JNull, JNum, JList}

\* Notes of requests: missing or empty, and two texts.
NotesInputs == {JStr(EmptyStr), JStr(<<"a">>), JStr(<<"b">>)}

BodyInputs ==
    [kind : {"object"}, status : StatusInputs, notes : NotesInputs]
        \cup {[kind |-> "malformed", status |-> JNull, notes |-> JNull],
              [kind |-> "array", status |-> JNull, notes |-> JNull]}

\* Tooth keys requests name: the first tooth of each chart and one that never exists.
ToothIdInputs == {1 + (i - 1) * Len(tooth_numbers) : i \in PatientInputs}

\* The stored patients, created one after the other in FirstYear.
SeededPatients ==
    [pk \in StoredPatients |->
        [patient_id |-> PatientKind \o IntToStr(FirstYear) \o Format04d(pk),
         is_active |-> TRUE, notes |-> EmptyStr]]

InitChart ==
    /\ year = FirstYear
    /\ patients = SeededPatients
    /\ invoices = EmptyTable
    /\ nextPatientPk = Cardinality(StoredPatients) + 1
    /\ nextInvoicePk = 1
    /\ procs = [p \in Procs |-> Idle]
    /\ issued = <<>>
    /\ assigned = <<>>
    /\ lastGen = NoGen
    /\ ChartEmpty
    /\ ExamsEmpty

NextChart ==
    \/ \E p \in PatientInputs :
          PatientDetail(p) /\ UNCHANGED <<idVars, examVars>>
    \/ \E t \in ToothIdInputs, b \in BodyInputs :
          ToothUpdate(t, b) /\ UNCHANGED <<idVars, examVars>>

SpecChart == InitChart /\ [][NextChart]_vars

---------------------------------------------------------------------------
(* Statements about the dental chart, under SpecChart *)

\* The canonical FDI numbers: quadrants 1..4, teeth 1..8.
FDI == {q * 10 + t : q \in 1..4, t \in 1..8}

CanonicalStatuses ==
    {"healthy", "cavity", "filled", "crown", "root_canal", "missing", "implant", "bridge"}

\* C5: right after a patient_detail view of a patient that had no tooth, the
\* patient has exactly 32 teeth, one per canonical FDI number, all healthy;
\* right after any later view of the same patient, the patient has as many
\* teeth as before the view.
C5_LazyInitOnce ==
    (resp.op = "patient_detail" /\ resp.code = 200) =>
        LET mine == TeethOf(resp.patient)
        IN  /\ resp.before = 0 =>
                  /\ Cardinality(mine) = 32
                  /\ \A n \in FDI :
                        Cardinality({t \in mine : teeth[t].tooth_number = n}) = 1
                  /\ \A t \in mine :
                        teeth[t].tooth_number \in FDI /\ teeth[t].status = "healthy"
            /\ resp.again =>
                  /\ resp.created = 0
                  /\ Cardinality(mine) = resp.before

\* C5 witness: a later view of a patient whose chart was initialized by an
\* earlier view and updated since: 32 teeth before and after.
C5_Witness ==
    /\ resp.op = "patient_detail"
    /\ resp.code = 200
    /\ resp.again
    /\ resp.before = 32
    /\ Cardinality(TeethOf(resp.patient)) = 32
    /\ \E t \in TeethOf(resp.patient) : teeth[t].status # "healthy"

\* C6: a tooth_update of a stored tooth whose status value is not one of the
\* 8 canonical statuses (a missing one included) is answered with a
\* validation failure (400) and leaves the tooth's status and notes as they
\* were, whatever the notes of the request.
C6_InvalidStatusIsValidationFailure ==
    (/\ resp.op = "tooth_update"
     /\ resp.error # "Http404"
     /\ resp.body.kind = "object"
     /\ ~(resp.body.status.t = "str" /\ resp.body.status.v \in CanonicalStatuses))
    => /\ resp.code = 400
       /\ resp.after.status = resp.before.status
       /\ resp.after.notes = resp.before.notes

\* C7: a tooth_update with a valid status applied a second time, right after
\* its first application to the same tooth, leaves the status and the notes
\* of the tooth as the first application left them.
C7_UpdateIdempotent ==
    (resp.op = "tooth_update" /\ resp.repeat) =>
        /\ resp.code = 200
        /\ resp.after.status = resp.before.status
        /\ resp.after.notes = resp.before.notes
        /\ teeth[resp.tooth_id] = resp.before

\* C7 witness: the second of two equal requests that carry a status other
\* than the initial one and non-empty notes.
C7_Witness ==
    /\ resp.op = "tooth_update"
    /\ resp.repeat
    /\ resp.code = 200
    /\ resp.body.status.v # "healthy"
    /\ resp.body.notes.v # EmptyStr
    /\ teeth[resp.tooth_id].notes = resp.body.notes.v

---------------------------------------------------------------------------
(* Periodontal exams: periodontal_exam_create, periodontal_exam_detail *)

\* request.POST.get(name) of a field that was not submitted
PyNone == <<"None">>

Str(s) == s

RECURSIVE LStrip(_)
LStrip(s) == IF s # <<>> /\ Head(s) = " " THEN LStrip(Tail(s)) ELSE s

RECURSIVE RStrip(_)
RStrip(s) == IF s # <<>> /\ s[Len(s)] = " " THEN RStrip(SubSeq(s, 1, Len(s) - 1)) ELSE s

\* s.strip()
PyStrip(s) == RStrip(LStrip(s))

\* The digits of an integer literal after its sign, int() having stripped it.
IntBody(s) ==
    LET t == PyStrip(s)
    IN  IF t # <<>> /\ Head(t) \in {"+", "-"} THEN Tail(t) ELSE t

\* int(s) does not raise ValueError
IsIntLiteral(s) ==
    /\ IntBody(s) # <<>>
    /\ \A i \in 1..Len(IntBody(s)) : IsDigit(IntBody(s)[i])

\* int(s)
PyInt(s) ==
    LET t == PyStrip(s)
    IN  IF Head(t) = "-" THEN 0 - DigitsToInt(IntBody(s)) ELSE DigitsToInt(IntBody(s))

surfaces == <<"buccal", "lingual">>
positions == <<"mesial", "middle", "distal">>

\* The loops with range(11, 43) for the tooth numbers.
LoopKeyPlain(i) ==
    LET per == Len(surfaces) * Len(positions)
    IN  << 11 + ((i - 1) \div per),
           surfaces[(((i - 1) % per) \div Len(positions)) + 1],
           positions[((i - 1) % Len(positions)) + 1] >>

\* The (tooth_num, surface, position) the three nested loops reach at their
\* i-th iteration.
LoopKey(i) ==
    LET per == Len(surfaces) * Len(positions)
    IN  << tooth_numbers[((i - 1) \div per) + 1],
           surfaces[(((i - 1) % per) \div Len(positions)) + 1],
           positions[((i - 1) % Len(positions)) + 1] >>

LoopLen == Len(tooth_numbers) * Len(surfaces) * Len(positions)

\* f'depth_{tooth_num}_{surface}_{position}' and its bleeding_, calculus_ fellows
FieldName(kind, key) == <<kind, key[1], key[2], key[3]>>

\* request.POST.get(name)
PostGet(fields, name) == IF name \in DOMAIN fields THEN fields[name] ELSE PyNone

\* depth and depth.strip()
HasDepth(fields, key) ==
    LET depth == PostGet(fields, FieldName("depth", key))
    IN  depth # PyNone /\ depth # EmptyStr /\ PyStrip(depth) # EmptyStr

\* The measurement row with the bleeding flag read from the calculus field.
MeasurementRowSwapped(exam, fields, key) ==
    [exam |-> exam, tooth_number |-> key[1], surface |-> key[2], position |-> key[3],
     pocket_depth |-> PyInt(PostGet(fields, FieldName("depth", key))),
     bleeding |-> PostGet(fields, FieldName("calculus", key)) = <<"o", "n">>,
     calculus |-> PostGet(fields, FieldName("calculus", key)) = <<"o", "n">>]

\* ToothMeasurement.objects.create(...) of one loop iteration
MeasurementRow(exam, fields, key) ==
    [exam |-> exam, tooth_number |-> key[1], surface |-> key[2], position |-> key[3],
     pocket_depth |-> PyInt(PostGet(fields, FieldName("depth", key))),
     bleeding |-> PostGet(fields, FieldName("bleeding", key)) = <<"o", "n">>,
     calculus |-> PostGet(fields, FieldName("calculus", key)) = <<"o", "n">>]

RECURSIVE Loop(_, _, _, _)
\* The iterations lo..hi of the three nested loops, in order: the rows they
\* create, and the exception that ends them
Loop(lo, hi, exam, fields) ==
    IF lo = hi THEN
        IF ~HasDepth(fields, LoopKey(lo)) THEN [rows |-> <<>>, error |-> ""]
        ELSE IF ~IsIntLiteral(PostGet(fields, FieldName("depth", LoopKey(lo))))
             THEN [rows |-> <<>>, error |-> "ValueError"]
        ELSE [rows |-> <<MeasurementRow(exam, fields, LoopKey(lo))>>, error |-> ""]
    ELSE
        LET mid == (lo + hi) \div 2
            first == Loop(lo, mid, exam, fields)
        IN  IF first.error # "" THEN first
            ELSE LET rest == Loop(mid + 1, hi, exam, fields)
                 IN  [rows |-> first.rows \o rest.rows, error |-> rest.error]

\* Days of month m of year y.
DaysIn(y, m) ==
    IF m = 2 THEN (IF (y % 4 = 0 /\ y % 100 # 0) \/ y % 400 = 0 THEN 29 ELSE 28)
    ELSE IF m \in {4, 6, 9, 11} THEN 30 ELSE 31

\* The text has the form dddd-dd-dd.
IsIsoForm(s) ==
    /\ Len(s) = 10
    /\ s[5] = "-" /\ s[8] = "-"
    /\ \A i \in {1, 2, 3, 4, 6, 7, 9, 10} : IsDigit(s[i])

\* DateField.to_python(value) of a text: <<year, month, day>>, or <<>> when it
\* raises ValidationError. Texts are of the 10-character ISO form or no date at all.
ParseDate(s) ==
    IF ~IsIsoForm(s) THEN <<>>
    ELSE LET y == DigitsToInt(SubSeq(s, 1, 4))
             m == DigitsToInt(SubSeq(s, 6, 7))
             d == DigitsToInt(SubSeq(s, 9, 10))
         IN  IF y >= 1 /\ m \in 1..12 /\ d \in 1..DaysIn(y, m) THEN <<y, m, d>> ELSE <<>>

\* a < b for dates
DateLess(a, b) ==
    \/ a[1] < b[1]
    \/ a[1] = b[1] /\ a[2] < b[2]
    \/ a[1] = b[1] /\ a[2] = b[2] /\ a[3] < b[3]

NoGrid == [n \in {} |-> 0]

\* periodontal_exam_create (POST): get_object_or_404, the exam row, then one
\* measurement row per loop iteration with a depth, each statement committed
\* on its own; int(depth) raising ValueError ends the request there
ExamCreate(p, post) ==
    LET base == [op |-> "exam_create", patient |-> p, post |-> post,
                 examsBefore |-> DOMAIN exams, measBefore |-> DOMAIN measurements]
    IN
    IF p \notin DOMAIN patients THEN
        /\ examResp' = base @@ [code |-> 404, error |-> "Http404", exam |-> 0]
        /\ UNCHANGED <<exams, nextExamPk, measurements, nextMeasurementPk, posted, users>>
    ELSE IF post.exam_date = PyNone THEN
        \* NOT NULL constraint of exam_date
        /\ examResp' = base @@ [code |-> 500, error |-> "IntegrityError", exam |-> 0]
        /\ UNCHANGED <<exams, nextExamPk, measurements, nextMeasurementPk, posted, users>>
    ELSE IF ParseDate(post.exam_date) = <<>> THEN
        /\ examResp' = base @@ [code |-> 500, error |-> "ValidationError", exam |-> 0]
        /\ UNCHANGED <<exams, nextExamPk, measurements, nextMeasurementPk, posted, users>>
    ELSE
        \E exam \in {nextExamPk} :
        \E done \in {Loop(1, LoopLen, exam, post.fields)} :
        \E n \in {Len(done.rows)} :
            /\ exams' = exams @@ (exam :>
                   [patient |-> p, exam_date |-> ParseDate(post.exam_date), dentist |-> "user"])
            /\ nextExamPk' = nextExamPk + 1
            /\ measurements' =
                   [pk \in DOMAIN measurements \cup (nextMeasurementPk..(nextMeasurementPk + n - 1)) |->
                       IF pk \in DOMAIN measurements THEN measurements[pk]
                       ELSE done.rows[pk - nextMeasurementPk + 1]]
            /\ nextMeasurementPk' = nextMeasurementPk + n
            /\ posted' = posted @@ (exam :> post)
            /\ UNCHANGED users
            /\ examResp' = base @@
                   (IF done.error = ""
                    THEN [code |-> 302, error |-> "", exam |-> exam]
                    ELSE [code |-> 500, error |-> done.error, exam |-> exam])

MeasurementsOf(e) == {m \in DOMAIN measurements : measurements[m].exam = e}

\* The tooth_data / previous_data dictionary of the rows of exam e: tooth
\* number -> surface -> position -> row key, 0 for None; of several rows of
\* one slot the one assigned last stays
Grid(e) ==
    LET rows == MeasurementsOf(e)
        numbers == {measurements[m].tooth_number : m \in rows}
    IN  [n \in numbers |->
            LET mine == {m \in rows : measurements[m].tooth_number = n}
            IN  [sf \in {surfaces[i] : i \in 1..Len(surfaces)} |->
                    [ps \in {positions[i] : i \in 1..Len(positions)} |->
                        LET at == {m \in mine : /\ measurements[m].surface = sf
                                                /\ measurements[m].position = ps}
                        IN  IF at = {} THEN 0
                            ELSE CHOOSE m \in at : \A o \in at : o <= m]]]

\* The candidates with exam_date__lte for exam_date__lt.
PreviousCandidatesLte(e) ==
    LET earlier == {x \in DOMAIN exams \ {e} :
                       /\ exams[x].patient = exams[e].patient
                       /\ ~DateLess(exams[e].exam_date, exams[x].exam_date)}
    IN  {x \in earlier :
            \A y \in earlier : ~DateLess(exams[x].exam_date, exams[y].exam_date)}

\* filter(patient=patient, exam_date__lt=exam.exam_date).order_by('-exam_date')
\* .first(): the rows that can come first, any of them when dates tie
PreviousCandidates(e) ==
    LET earlier == {x \in DOMAIN exams :
                       /\ exams[x].patient = exams[e].patient
                       /\ DateLess(exams[x].exam_date, exams[e].exam_date)}
    IN  {x \in earlier :
            \A y \in earlier : ~DateLess(exams[x].exam_date, exams[y].exam_date)}

\* periodontal_exam_detail: get_object_or_404, the grid of the exam, the
\* previous exam and its grid
ExamDetail(exam_id) ==
    /\ IF exam_id \notin DOMAIN exams
       THEN examResp' = [op |-> "exam_detail", exam_id |-> exam_id, code |-> 404,
                         tooth_data |-> NoGrid, previous_exam |-> 0,
                         previous_data |-> NoGrid]
       ELSE \E prev \in (IF PreviousCandidates(exam_id) = {} THEN {0}
                         ELSE PreviousCandidates(exam_id)) :
                examResp' = [op |-> "exam_detail", exam_id |-> exam_id, code |-> 200,
                             tooth_data |-> Grid(exam_id),
                             previous_exam |-> prev,
                             previous_data |-> IF prev = 0 THEN NoGrid ELSE Grid(prev)]
    /\ UNCHANGED <<exams, nextExamPk, measurements, nextMeasurementPk, posted, users>>

On == <<"o", "n">>
Off == <<"o", "f", "f">>

\* What one (tooth, surface, position) of a form carries: the fields present.
EntryInputs ==
    { [depth |-> PyNone,           bleeding |-> PyNone, calculus |-> PyNone],
      [depth |-> <<"3">>,          bleeding |-> On,     calculus |-> PyNone],
      [depth |-> <<" ", "4", " ">>, bleeding |-> Off,    calculus |-> On],
      [depth |-> EmptyStr,         bleeding |-> On,     calculus |-> PyNone],
      [depth |-> <<" ">>,          bleeding |-> PyNone, calculus |-> On],
      [depth |-> <<"a", "b", "c">>, bleeding |-> On,     calculus |-> PyNone],
      [depth |-> <<"-", "2">>,     bleeding |-> PyNone, calculus |-> PyNone] }

SampleKeys == {LoopKey(1), LoopKey(LoopLen)}

AllKeys == {LoopKey(i) : i \in 1..LoopLen}

\* The POST fields of a form filled as `fill` says on the keys of its domain.
FieldsOf(fill) ==
    LET names == {nm \in {"depth", "bleeding", "calculus"} \X DOMAIN fill :
                     fill[nm[2]][nm[1]] # PyNone}
    IN  [f \in {FieldName(nm[1], nm[2]) : nm \in names} |->
            fill[<<f[2], f[3], f[4]>>][f[1]]]

\* What the last combination carries, when it is filled differently.
LastEntryInputs ==
    {e \in EntryInputs : e.depth \in {PyNone, <<" ", "4", " ">>, <<"a", "b", "c">>}}

\* Forms filled on the first and the last combination the loops reach, and
\* the form filled on all 192.
FieldInputs ==
    {FieldsOf(fill) :
        fill \in {g \in [SampleKeys -> EntryInputs] :
                     g[LoopKey(LoopLen)] \in LastEntryInputs}}
        \cup {FieldsOf([k \in AllKeys |->
                          [depth |-> <<"3">>, bleeding |-> On, calculus |-> PyNone]])}

D1 == <<"2", "0", "2", "4", "-", "0", "1", "-", "1", "0">>
D2 == <<"2", "0", "2", "4", "-", "0", "2", "-", "0", "5">>
D3 == <<"2", "0", "2", "4", "-", "1", "1", "-", "2", "0">>
\* 30 February, and a text that is no date
BadDates == {<<"2", "0", "2", "4", "-", "0", "2", "-", "3", "0">>, <<"s", "o", "o", "n">>}

\* Forms with no depth, and with one.
FewFieldInputs ==
    {FieldsOf(<<>>),
     FieldsOf([k \in {LoopKey(1)} |->
                  [depth |-> <<"3">>, bleeding |-> On, calculus |-> PyNone]])}

InitExam ==
    /\ year = FirstYear
    /\ patients = SeededPatients
    /\ invoices = EmptyTable
    /\ nextPatientPk = Cardinality(StoredPatients) + 1
    /\ nextInvoicePk = 1
    /\ procs = [p \in Procs |-> Idle]
    /\ issued = <<>>
    /\ assigned = <<>>
    /\ lastGen = NoGen
    /\ ChartEmpty
    /\ ExamsEmpty

NextExam ==
    \/ \E f \in FieldInputs :
          /\ nextExamPk <= MaxExams
          /\ ExamCreate(1, [exam_date |-> D1, fields |-> f])
          /\ UNCHANGED <<idVars, chartVars>>
    \/ \E d \in {PyNone} \cup BadDates, f \in FewFieldInputs :
          /\ ExamCreate(1, [exam_date |-> d, fields |-> f])
          /\ UNCHANGED <<idVars, chartVars>>
    \/ \E p \in PatientInputs \ StoredPatients :
          /\ ExamCreate(p, [exam_date |-> D1, fields |-> FieldsOf(<<>>)])
          /\ UNCHANGED <<idVars, chartVars>>
    \/ \E e \in 1..(MaxExams + 1) :
          ExamDetail(e) /\ UNCHANGED <<idVars, chartVars>>

SpecExam == InitExam /\ [][NextExam]_vars

\* The form submitted for patient p: with one depth for the first patient,
\* with none for the others.
FormOf(p) ==
    IF p = 1
    THEN FieldsOf([k \in {LoopKey(1)} |->
                     [depth |-> <<"3">>, bleeding |-> On, calculus |-> PyNone]])
    ELSE FieldsOf(<<>>)

NextCompare ==
    \/ \E p \in StoredPatients, d \in {D1, D2, D3} :
          /\ nextExamPk <= MaxCompared
          /\ ExamCreate(p, [exam_date |-> d, fields |-> FormOf(p)])
          /\ UNCHANGED <<idVars, chartVars>>
    \/ \E e \in 1..(MaxCompared + 1) :
          ExamDetail(e) /\ UNCHANGED <<idVars, chartVars>>

SpecCompare == InitExam /\ [][NextCompare]_vars

----------------------------------------------------------------------------
(* Properties of the periodontal exams *)

\* A depth that is missing, empty or made of spaces only.
C8_Blank(depth) == depth = PyNone \/ \A i \in 1..Len(depth) : depth[i] = " "

\* The number each submitted depth text stands for.
C8_Depths ==
    (<<"3">> :> 3) @@ (<<" ", "4", " ">> :> 4) @@ (<<"-", "2">> :> (0 - 2))

\* The combinations of form f with a depth entered.
C8_Entered(f) == {k \in AllKeys : ~C8_Blank(PostGet(f, FieldName("depth", k)))}

\* What grid holds for combination k: a row key, or 0 for absent.
C8_Slot(grid, k) == IF k[1] \in DOMAIN grid THEN grid[k[1]][k[2]][k[3]] ELSE 0

\* Every depth entered in form f is an integer text.
C8_Valid(f) ==
    \A k \in C8_Entered(f) : PostGet(f, FieldName("depth", k)) \in DOMAIN C8_Depths

\* C8: an exam created from a form with N valid depth entries over the 192
\* (tooth, surface, position) combinations, then read with
\* periodontal_exam_detail, shows a grid with exactly N populated slots, each
\* with the submitted depth and the submitted bleeding and calculus flags
\* (false when the flag is absent), and nothing for the other 192 - N
\* combinations; a missing, empty or whitespace-only depth gives no row.
C8_ExamRoundTrip ==
    (/\ examResp.op = "exam_detail"
     /\ examResp.code = 200
     /\ C8_Valid(posted[examResp.exam_id].fields))
    => LET e == examResp.exam_id
           f == posted[e].fields
           grid == examResp.tooth_data
           entered == C8_Entered(f)
       IN  /\ \A k \in AllKeys :
                 LET m == C8_Slot(grid, k)
                 IN  IF k \in entered
                     THEN /\ m \in MeasurementsOf(e)
                          /\ measurements[m].tooth_number = k[1]
                          /\ measurements[m].surface = k[2]
                          /\ measurements[m].position = k[3]
                          /\ measurements[m].pocket_depth =
                                 C8_Depths[PostGet(f, FieldName("depth", k))]
                          /\ measurements[m].bleeding =
                                 (PostGet(f, FieldName("bleeding", k)) = On)
                          /\ measurements[m].calculus =
                                 (PostGet(f, FieldName("calculus", k)) = On)
                     ELSE m = 0
           /\ Cardinality({k \in AllKeys : C8_Slot(grid, k) # 0}) = Cardinality(entered)
           /\ Cardinality(MeasurementsOf(e)) = Cardinality(entered)
           /\ Cardinality(AllKeys) = 192

\* A sparse exam has been read: one combination entered with a flag set and
\* another submitted with a whitespace-only depth and a flag, left absent.
C8_Witness ==
    /\ examResp.op = "exam_detail"
    /\ examResp.code = 200
    /\ C8_Valid(posted[examResp.exam_id].fields)
    /\ Cardinality(C8_Entered(posted[examResp.exam_id].fields)) = 1
    /\ \E k \in AllKeys :
          /\ PostGet(posted[examResp.exam_id].fields, FieldName("depth", k)) = <<" ">>
          /\ PostGet(posted[examResp.exam_id].fields, FieldName("calculus", k)) = On
          /\ C8_Slot(examResp.tooth_data, k) = 0
    /\ \E k \in AllKeys :
          /\ C8_Slot(examResp.tooth_data, k) # 0
          /\ measurements[C8_Slot(examResp.tooth_data, k)].pocket_depth = 4
          /\ measurements[C8_Slot(examResp.tooth_data, k)].calculus

\* A date as one number that grows with the date.
C9_Ordinal(d) == d[1] * 10000 + d[2] * 100 + d[3]

\* The exams of the patient of exam e dated strictly before it.
C9_Earlier(e) ==
    {x \in DOMAIN exams :
        /\ exams[x].patient = exams[e].patient
        /\ C9_Ordinal(exams[x].exam_date) < C9_Ordinal(exams[e].exam_date)}

\* C9: the previous exam shown when exam E is read is an exam of the same
\* patient dated strictly before E and no exam of that patient before E is
\* dated later than it; exams of other patients and exams dated the same day
\* as E or later are never chosen; with no strictly earlier exam of the
\* patient there is no previous exam and the comparison grid is empty.
C9_PreviousIsLatestEarlier ==
    (examResp.op = "exam_detail" /\ examResp.code = 200)
    => LET e == examResp.exam_id
           prev == examResp.previous_exam
       IN  IF C9_Earlier(e) = {}
           THEN prev = 0 /\ examResp.previous_data = NoGrid
           ELSE /\ prev \in C9_Earlier(e)
                /\ \A x \in C9_Earlier(e) :
                      C9_Ordinal(exams[x].exam_date) <= C9_Ordinal(exams[prev].exam_date)
                /\ examResp.previous_data = Grid(prev)

\* An exam has been read whose previous exam is older than another patient's
\* exam that lies between the two, while the patient has a second exam on
\* the day of the exam read.
C9_Witness ==
    /\ examResp.op = "exam_detail"
    /\ examResp.code = 200
    /\ examResp.previous_exam # 0
    /\ \E x \in DOMAIN exams :
          /\ exams[x].patient # exams[examResp.exam_id].patient
          /\ C9_Ordinal(exams[x].exam_date) < C9_Ordinal(exams[examResp.exam_id].exam_date)
          /\ C9_Ordinal(exams[x].exam_date) >
                 C9_Ordinal(exams[examResp.previous_exam].exam_date)
    /\ \E x \in DOMAIN exams \ {examResp.exam_id} :
          /\ exams[x].patient = exams[examResp.exam_id].patient
          /\ exams[x].exam_date = exams[examResp.exam_id].exam_date

\* C10: after a periodontal_exam_create request either the exam and a row
\* for every submitted non-empty depth are stored, or nothing is: a request
\* that fails (non-integer depth, malformed or missing date) leaves no exam
\* row and no measurement row behind.
C10_CreationAtomic ==
    examResp.op = "exam_create"
    => \/ /\ examResp.code = 302
          /\ DOMAIN exams = examResp.examsBefore \cup {examResp.exam}
          /\ Cardinality(MeasurementsOf(examResp.exam)) =
                 Cardinality(C8_Entered(examResp.post.fields))
       \/ /\ examResp.code # 302
          /\ DOMAIN exams = examResp.examsBefore
          /\ DOMAIN measurements = examResp.measBefore

----------------------------------------------------------------------------
(* SpecChartConc: patient_detail served by several workers, statement by   *)
(* statement                                                               *)

\* A Tooth table with no unique_together on (patient, tooth_number).
ToothExistsNever(p, n) == FALSE

\* unique_together = ['patient', 'tooth_number']: a row with the pair is
\* stored, so an INSERT of the pair raises IntegrityError
ToothExists(p, n) ==
    \E t \in DOMAIN teeth : teeth[t].patient = p /\ teeth[t].tooth_number = n

\* patient_detail up to the chart initialization: get_object_or_404, the one
\* read of patient.teeth.all(), and the response when no tooth is to be created
DetailStart(q, p) ==
    /\ detail[q].pc = "idle"
    /\ IF p \notin DOMAIN patients
       THEN /\ detail' = [detail EXCEPT ![q] =
                   [pc |-> "done", patient |-> p, i |-> 0, code |-> 404, error |-> "Http404"]]
            /\ UNCHANGED viewed
       ELSE IF TeethOf(p) # {}
       THEN /\ detail' = [detail EXCEPT ![q] =
                   [pc |-> "done", patient |-> p, i |-> 0, code |-> 200, error |-> ""]]
            /\ viewed' = viewed \cup {p}
       ELSE /\ detail' = [detail EXCEPT ![q] =
                   [pc |-> "create", patient |-> p, i |-> 1, code |-> 0, error |-> ""]]
            /\ UNCHANGED viewed
    /\ UNCHANGED <<teeth, nextToothPk, resp, updating>>

\* One iteration of the loop of patient_detail: Tooth.objects.create, committed
\* on its own; an IntegrityError is not caught and ends the request; after the
\* last iteration the response is rendered
DetailCreate(q) ==
    /\ detail[q].pc = "create"
    /\ LET p == detail[q].patient
           i == detail[q].i
       IN  IF ToothExists(p, tooth_numbers[i])
           THEN /\ detail' = [detail EXCEPT ![q] =
                       [pc |-> "done", patient |-> p, i |-> i, code |-> 500,
                        error |-> "IntegrityError"]]
                /\ UNCHANGED <<teeth, nextToothPk, viewed>>
           ELSE /\ teeth' = teeth @@ (nextToothPk :>
                       [patient |-> p, tooth_number |-> tooth_numbers[i],
                        status |-> "healthy", notes |-> EmptyStr])
                /\ nextToothPk' = nextToothPk + 1
                /\ IF i = Len(tooth_numbers)
                   THEN /\ detail' = [detail EXCEPT ![q] =
                               [pc |-> "done", patient |-> p, i |-> i, code |-> 200,
                                error |-> ""]]
                        /\ viewed' = viewed \cup {p}
                   ELSE /\ detail' = [detail EXCEPT ![q] = [@ EXCEPT !.i = i + 1]]
                        /\ UNCHANGED viewed
    /\ UNCHANGED <<resp, updating>>

\* The patients the concurrent requests name: one stored, one that does not exist.
ConcPatientInputs == {1} \cup (PatientInputs \ StoredPatients)

NextChartConc ==
    \/ \E q \in Procs, p \in ConcPatientInputs :
          DetailStart(q, p) /\ UNCHANGED <<idVars, examVars>>
    \/ \E q \in Procs :
          DetailCreate(q) /\ UNCHANGED <<idVars, examVars>>

SpecChartConc == InitChart /\ [][NextChartConc]_vars

\* C11: whenever a patient_detail request has finished, with a response or
\* with an error, alone or next to another view of the same patient, its
\* patient has either no tooth row or 32, never a number in between.
C11_InitAllOrNothing ==
    \A q \in Procs :
        (detail[q].pc = "done" /\ detail[q].patient \in DOMAIN patients)
            => Cardinality(TeethOf(detail[q].patient)) \in {0, 32}

\* The patient_detail requests for patient p, started and finished.
C16_Started(p) == {q \in Procs : detail[q].pc # "idle" /\ detail[q].patient = p}
C16_Finished(p) == {q \in Procs : detail[q].pc = "done" /\ detail[q].patient = p}

\* C16: under any interleaving of concurrent patient_detail requests for a
\* patient without teeth, no two tooth rows share (patient, tooth_number),
\* no patient ever has more than 32 tooth rows, and once all the requests
\* for the patient have finished the patient has exactly 32.
C16_NoDoubleInit ==
    /\ \A t, u \in DOMAIN teeth :
          (t # u /\ teeth[t].patient = teeth[u].patient)
              => teeth[t].tooth_number # teeth[u].tooth_number
    /\ \A p \in DOMAIN patients :
          /\ Cardinality(TeethOf(p)) <= 32
          /\ (C16_Started(p) # {} /\ C16_Started(p) = C16_Finished(p))
                 => Cardinality(TeethOf(p)) = 32

\* Two requests for one patient both read an empty chart and have finished:
\* one created the 32 rows, the other was stopped by the unique constraint.
C16_Witness ==
    \E q, r \in Procs :
        /\ q # r
        /\ detail[q].pc = "done" /\ detail[r].pc = "done"
        /\ detail[q].patient = detail[r].patient
        /\ detail[q].code = 200 /\ detail[q].i = Len(tooth_numbers)
        /\ detail[r].error = "IntegrityError"
        /\ Cardinality(TeethOf(detail[q].patient)) = 32

----------------------------------------------------------------------------
(* SpecChartAdmin: the chart pages and the admin site's deletion of teeth *)

\* ToothAdmin: the delete view and the delete_selected action on a queryset
AdminDeleteTeeth(queryset) ==
    /\ queryset # {}
    /\ queryset \subseteq DOMAIN teeth
    /\ teeth' = [t \in DOMAIN teeth \ queryset |-> teeth[t]]
    /\ resp' = [op |-> "admin_delete_teeth", queryset |-> queryset]
    /\ UNCHANGED <<nextToothPk, viewed, detail, updating>>

\* Tooth numbers the deleted querysets select: one tooth, the lower jaw, all teeth.
NumberSets ==
    { {18},
      {tooth_numbers[i] : i \in 17..Len(tooth_numbers)},
      {tooth_numbers[i] : i \in 1..Len(tooth_numbers)} }

NextChartAdmin ==
    \/ \E p \in PatientInputs :
          /\ (p \in DOMAIN patients /\ TeethOf(p) = {})
                 => nextToothPk <= MaxCharts * Len(tooth_numbers)
          /\ PatientDetail(p)
          /\ UNCHANGED <<idVars, examVars>>
    \/ \E p \in StoredPatients, ns \in NumberSets :
          /\ AdminDeleteTeeth({t \in TeethOf(p) : teeth[t].tooth_number \in ns})
          /\ UNCHANGED <<idVars, examVars>>

SpecChartAdmin == InitChart /\ [][NextChartAdmin]_vars

\* C15: a patient_detail view of a patient who has at least one tooth row
\* but fewer than 32 creates no tooth row: the patient's teeth after the
\* view are the rows the patient had before it.
C15_PartialChartUntouched ==
    (/\ resp.op = "patient_detail"
     /\ resp.code = 200
     /\ resp.before \in 1..31)
    => /\ resp.created = 0
       /\ [t \in TeethOf(resp.patient) |-> teeth[t]] = resp.rows

\* A chart that lost its lower jaw and tooth 18 in the admin site has been
\* viewed: the 15 rows left are all the patient has.
C15_Witness ==
    /\ resp.op = "patient_detail"
    /\ resp.code = 200
    /\ resp.before = 15
    /\ Cardinality(TeethOf(resp.patient)) = 15
    /\ \A t \in TeethOf(resp.patient) : teeth[t].tooth_number \in 11..28

----------------------------------------------------------------------------
(* SpecCascade: exams created, exams and users deleted in the admin site *)

\* NULL in PeriodontalExam.dentist
NoUser == "null"

\* PeriodontalExamAdmin delete that leaves the measurements of the exam.
AdminDeleteExamOnly(e) ==
    /\ e \in DOMAIN exams
    /\ exams' = [x \in DOMAIN exams \ {e} |-> exams[x]]
    /\ examResp' = [op |-> "admin_delete_exam", exam_id |-> e]
    /\ UNCHANGED <<measurements, nextExamPk, nextMeasurementPk, posted, users>>

\* PeriodontalExamAdmin: the admin site's delete view / delete_selected;
\* ToothMeasurement.exam is on_delete=CASCADE
AdminDeleteExam(e) ==
    /\ e \in DOMAIN exams
    /\ exams' = [x \in DOMAIN exams \ {e} |-> exams[x]]
    /\ measurements' = [m \in DOMAIN measurements \ MeasurementsOf(e) |-> measurements[m]]
    /\ examResp' = [op |-> "admin_delete_exam", exam_id |-> e]
    /\ UNCHANGED <<nextExamPk, nextMeasurementPk, posted, users>>

\* Deletion of a User: PeriodontalExam.dentist is on_delete=SET_NULL
AdminDeleteUser(u) ==
    /\ u \in users
    /\ users' = users \ {u}
    /\ exams' = [x \in DOMAIN exams |->
                    IF exams[x].dentist = u
                    THEN [exams[x] EXCEPT !.dentist = NoUser]
                    ELSE exams[x]]
    /\ examResp' = [op |-> "admin_delete_user", user |-> u]
    /\ UNCHANGED <<measurements, nextExamPk, nextMeasurementPk, posted>>

NextCascade ==
    \/ \E f \in FewFieldInputs :
          \* @login_required: request.user is a stored user
          /\ "user" \in users
          /\ nextExamPk <= MaxCascade
          /\ ExamCreate(1, [exam_date |-> D1, fields |-> f])
          /\ UNCHANGED <<idVars, chartVars>>
    \/ \E e \in DOMAIN exams :
          AdminDeleteExam(e) /\ UNCHANGED <<idVars, chartVars>>
    \/ \E u \in users :
          AdminDeleteUser(u) /\ UNCHANGED <<idVars, chartVars>>

SpecCascade == InitExam /\ [][NextCascade]_vars

\* C20: over exam creations, exam deletions and user deletions every
\* measurement refers to a stored exam; a step removes a measurement exactly
\* when it removes the exam of the measurement, and changes no measurement
\* that stays; a step that deletes a user removes no exam and no measurement,
\* and every exam's clinician is then a stored user or null.
C20_CascadeAndSetNull ==
    /\ [](\A m \in DOMAIN measurements : measurements[m].exam \in DOMAIN exams)
    /\ [][/\ \A m \in DOMAIN measurements :
                /\ (m \in DOMAIN measurements') <=> (measurements[m].exam \in DOMAIN exams')
                /\ (m \in DOMAIN measurements') => measurements'[m] = measurements[m]
          /\ (users' # users) =>
                /\ DOMAIN exams' = DOMAIN exams
                /\ measurements' = measurements
                /\ \A e \in DOMAIN exams :
                      /\ exams'[e].dentist \in users' \cup {NoUser}
                      /\ exams'[e].patient = exams[e].patient
                      /\ exams'[e].exam_date = exams[e].exam_date]_vars

\* An exam with measurements has been deleted, and the clinician of another
\* exam with measurements has been deleted: that exam and its rows are
\* stored, with no clinician.
C20_Witness ==
    /\ "user" \notin users
    /\ \E e \in DOMAIN exams :
          /\ exams[e].dentist = NoUser
          /\ MeasurementsOf(e) # {}
    /\ \E d \in DOMAIN posted \ DOMAIN exams :
          DOMAIN posted[d].fields # {}

----------------------------------------------------------------------------
(* SpecToothConc: tooth_update served by several workers *)

\* tooth_update, first step: get_object_or_404 loads the row into the
\* request's own Tooth instance; Http404 is caught by except Exception
UpdateRead(q, tooth_id, body) ==
    /\ updating[q].pc = "idle"
    /\ IF tooth_id \notin DOMAIN teeth
       THEN updating' = [updating EXCEPT ![q] =
                [pc |-> "done", tooth_id |-> tooth_id, body |-> body,
                 tooth |-> NoTooth, code |-> 500, error |-> "Http404"]]
       ELSE updating' = [updating EXCEPT ![q] =
                [pc |-> "save", tooth_id |-> tooth_id, body |-> body,
                 tooth |-> teeth[tooth_id], code |-> 0, error |-> ""]]
    /\ UNCHANGED <<teeth, nextToothPk, viewed, resp, detail>>

\* tooth_update, second step: json.loads, the status check and the
\* assignments on the instance, then tooth.save(), which writes every column
\* of the row from the instance
UpdateSave(q) ==
    /\ updating[q].pc = "save"
    /\ LET r == ToothUpdateResult(updating[q].tooth, updating[q].body)
       IN  /\ teeth' = IF r.code = 200
                       THEN [teeth EXCEPT ![updating[q].tooth_id] = r.tooth]
                       ELSE teeth
           /\ updating' = [updating EXCEPT ![q] =
                  [pc |-> "done", tooth_id |-> updating[q].tooth_id,
                   body |-> updating[q].body, tooth |-> r.tooth,
                   code |-> r.code, error |-> r.error]]
    /\ UNCHANGED <<nextToothPk, viewed, resp, detail>>

\* The chart patient_detail created for the first patient.
InitialChart ==
    [t \in 1..Len(tooth_numbers) |->
        [patient |-> 1, tooth_number |-> tooth_numbers[t],
         status |-> "healthy", notes |-> EmptyStr]]

\* The first patient's chart page has been served; no update has run yet.
InitToothConc ==
    /\ year = FirstYear
    /\ patients = SeededPatients
    /\ invoices = EmptyTable
    /\ nextPatientPk = Cardinality(StoredPatients) + 1
    /\ nextInvoicePk = 1
    /\ procs = [p \in Procs |-> Idle]
    /\ issued = <<>>
    /\ assigned = <<>>
    /\ lastGen = NoGen
    /\ teeth = InitialChart
    /\ nextToothPk = Len(tooth_numbers) + 1
    /\ viewed = {1}
    /\ resp = NoResp
    /\ detail = [q \in Procs |-> NoDetail]
    /\ updating = [q \in Procs |-> NoUpdate]
    /\ ExamsEmpty

NextToothConc ==
    \/ \E q \in Procs, t \in ToothIdInputs, b \in BodyInputs :
          UpdateRead(q, t, b) /\ UNCHANGED <<idVars, examVars>>
    \/ \E q \in Procs :
          UpdateSave(q) /\ UNCHANGED <<idVars, examVars>>

SpecToothConc == InitToothConc /\ [][NextToothConc]_vars

\* One tooth_update served alone: the row it leaves.
C21_Apply(row, body) ==
    [row EXCEPT !.status = body.status.v,
                !.notes = IF body.notes.t = "str" /\ body.notes.v # EmptyStr
                          THEN body.notes.v ELSE @]

\* The requests that have been started, and those that succeeded on tooth t.
C21_Started == {q \in Procs : updating[q].pc # "idle"}
C21_Succeeded(t) ==
    {q \in Procs : /\ updating[q].pc = "done"
                   /\ updating[q].code = 200
                   /\ updating[q].tooth_id = t}

\* C21: when two concurrent tooth_update requests on one tooth have both
\* succeeded, whatever the interleaving of their reads and saves, the status
\* and notes of the tooth are those that running the two requests one after
\* the other, in one of the two orders, leaves: no write of one request is
\* lost to a stale copy saved by the other.
C21_NoInterference ==
    \A t \in DOMAIN teeth :
        \A q, r \in C21_Succeeded(t) :
            (q # r /\ C21_Started = {q, r})
                => teeth[t] \in
                       {C21_Apply(C21_Apply(InitialChart[t], updating[q].body),
                                  updating[r].body),
                        C21_Apply(C21_Apply(InitialChart[t], updating[r].body),
                                  updating[q].body)}

----------------------------------------------------------------------------
(* Further properties of the periodontal exams *)

\* The canonical key space: 32 FDI teeth, 2 surfaces, 3 positions.
C12_Canonical == FDI \X {"buccal", "lingual"} \X {"mesial", "middle", "distal"}

C12_KeyOf(m) ==
    <<measurements[m].tooth_number, measurements[m].surface, measurements[m].position>>

\* C12: in every state reached through exam creation, the (tooth_number,
\* surface, position) keys of the measurements of an exam all lie in the
\* canonical key space of 192 keys and no key occurs twice in one exam, so
\* an exam has at most 192 measurements.
C12_KeysCanonicalDistinct ==
    /\ Cardinality(C12_Canonical) = 192
    /\ \A e \in DOMAIN exams :
          /\ \A m \in MeasurementsOf(e) : C12_KeyOf(m) \in C12_Canonical
          /\ Cardinality({C12_KeyOf(m) : m \in MeasurementsOf(e)}) =
                 Cardinality(MeasurementsOf(e))
          /\ Cardinality(MeasurementsOf(e)) <= 192

\* An exam created from the form filled on every combination holds 192 rows.
C12_Witness ==
    \E e \in DOMAIN exams :
        /\ Cardinality(MeasurementsOf(e)) = 192
        /\ Cardinality(DOMAIN posted[e].fields) > 192

\* C19: every measurement row periodontal_exam_create has stored holds a
\* pocket_depth that is a non-negative integer, whatever depth text the
\* request carried.
C19_DepthNonNegative ==
    \A m \in DOMAIN measurements :
        measurements[m].pocket_depth \in Nat

\* C22: the previous exam periodontal_exam_detail chooses depends on the
\* stored exams alone: a read of an exam that directly follows a read of the
\* same exam, over the same stored exams, chooses the same previous exam,
\* also when several exams of the patient share the latest earlier date.
C22_PreviousIsFunctionOfData ==
    [][(/\ examResp.op = "exam_detail" /\ examResp.code = 200
        /\ examResp'.op = "exam_detail" /\ examResp'.code = 200
        /\ examResp'.exam_id = examResp.exam_id
        /\ exams' = exams
        /\ measurements' = measurements)
       => examResp'.previous_exam = examResp.previous_exam]_vars

----------------------------------------------------------------------------
(* Further properties of the identifiers *)

\* C13: a creation that meets a uniqueness violation caused by a concurrent
\* creation of the same identifier derives the next value again and retries
\* before an error reaches the caller, so every save() that has returned has
\* stored its row, and the stored rows hold distinct identifiers.
C13_RetriedBeforeError ==
    /\ \A p \in Procs :
          (procs[p].pc = "idle" /\ procs[p].result # "none")
              => procs[p].result = "created"
    /\ \A p, q \in DOMAIN patients :
          p # q => patients[p].patient_id # patients[q].patient_id

\* The identifiers stored before the last creation that carry its year.
C18_SameYear ==
    {id \in lastGen.before : YearOfId(lastGen.kind, id) = lastGen.year}

\* C18: when the highest counter stored for the year is 9999 or more, a
\* creation raises no error and stores an identifier whose suffix has 5
\* digits.
C18_FiveDigitSuffix ==
    (/\ lastGen.kind # "none"
     /\ \E id \in C18_SameYear : CounterOfId(lastGen.kind, id) >= 9999)
    => /\ lastGen.result = "created"
       /\ Len(lastGen.id) = Len(KindPrefix(lastGen.kind)) + 4 + 5
       /\ lastGen.id \notin lastGen.before

----------------------------------------------------------------------------
(* Further properties of the dental chart *)

\* C14: a tooth_update that names a tooth that is not stored is answered as
\* a lookup failure (404), not as a validation failure (400) nor as an
\* internal error (500), and changes no tooth.
C14_MissingToothIsNotFound ==
    (resp.op = "tooth_update" /\ resp.tooth_id \notin DOMAIN teeth)
        => resp.code = 404

\* The notes of a request body are a non-empty text.
C17_HasNotes(body) == body.notes.t = "str" /\ body.notes.v # EmptyStr

\* C17: a step that ends a successful tooth_update changes the targeted
\* tooth only: its status is the requested status, its notes are the notes
\* of the request when these are non-empty and the notes it had otherwise,
\* it stays the same tooth of the same patient, and every other tooth, of
\* that patient or of another, is as it was.
C17_UpdateTouchesOneTooth ==
    [][(resp'.op = "tooth_update" /\ resp'.code = 200)
       => LET t == resp'.tooth_id
              body == resp'.body
          IN  /\ DOMAIN teeth' = DOMAIN teeth
              /\ teeth'[t].status = body.status.v
              /\ teeth'[t].notes = IF C17_HasNotes(body) THEN body.notes.v
                                   ELSE teeth[t].notes
              /\ teeth'[t].patient = teeth[t].patient
              /\ teeth'[t].tooth_number = teeth[t].tooth_number
              /\ \A u \in DOMAIN teeth \ {t} : teeth'[u] = teeth[u]]_vars

\* A tooth with notes received a new status from a request without notes,
\* while a tooth of another patient holds a status and notes of its own.
C17_Witness ==
    /\ resp.op = "tooth_update"
    /\ resp.code = 200
    /\ ~C17_HasNotes(resp.body)
    /\ resp.before.notes # EmptyStr
    /\ resp.before.status # resp.body.status.v
    /\ teeth[resp.tooth_id].notes = resp.before.notes
    /\ teeth[resp.tooth_id].status = resp.body.status.v
    /\ \E u \in DOMAIN teeth :
          /\ teeth[u].patient # teeth[resp.tooth_id].patient
          /\ teeth[u].status # "healthy"
          /\ teeth[u].notes # EmptyStr

=============================================================================
